---- MODULE Spec2Model ----
(***************************************************************************)
(* Model of the resumable, retrying file-acquisition engine of             *)
(* snapshot-downloader (src/src/download.rs), of the retry policy          *)
(* (src/src/config.rs) and of the dispatch in src/src/main.rs.             *)
(*                                                                         *)
(* A URL is the sequence of its '/'-separated segments, so that            *)
(* "http://h/a/x" is <<"http:", "", "h", "a", "x">>.  A file is a record   *)
(* [ex, data]: whether it exists and its bytes.  Remote objects are        *)
(* sequences of distinct byte values, so that a misplaced, missing or      *)
(* repeated byte is visible in the content of a file.                      *)
(***************************************************************************)
EXTENDS Integers, Sequences, FiniteSets, TLC

\* ------------------------------------------------------------------ bounds
MaxLen == 2        \* length in bytes of every remote object
MaxRetries == 1    \* largest configured max_retries
MaxCalls == 2      \* invocations of the program on the same downloads dir
MaxParts == 2      \* parts of the multipart snapshot
MaxFaults == 2     \* failures the environment injects in one run
DelayAttempts == 9 \* largest attempt number whose delay is computed
TomlScalars == 2   \* distinct scalar values in a TOML document
MaxMerges == 2     \* runs of modify_toml on the same file
MaxLines == 2      \* lines the binary writes to each of stdout and stderr

\* --------------------------------------------------------------- constants
StatusOk == 200
StatusPartial == 206
StatusNotFound == 404
StatusRangeNotSatisfiable == 416
StatusServerError == 500

\* vec![0u8; 256 * 1024]: the most bytes one read of the stream returns
BufferSize == 262144

\* ------------------------------------------------------------------- URLs
UrlA == <<"http:", "", "h", "a", "x">>
UrlS == <<"s3:", "", "bkt", "k", "x">>

\* an S3 URL with a bucket and no key: parse_s3_url rejects it
UrlBad == <<"s3:", "", "bkt">>

PartNames == <<"p1", "p2", "p3">>

\* the URL of the i-th part of the multipart snapshot
PartUrl(i) == <<"http:", "", "h", "parts", PartNames[i]>>

PartUrls == [i \in 1..MaxParts |-> PartUrl(i)]

\* the parts of a multipart snapshot kept in object storage
PartUrlsS3 == [i \in 1..MaxParts |-> <<"s3:", "", "bkt", "parts", PartNames[i]>>]

\* a snapshot of two parts whose first part has the name of the final file
ClashUrls == <<<<"http:", "", "h", "parts", "out">>, PartUrl(2)>>

\* the bytes of the remote object a URL names
Remote(u) ==
    LET base == IF u = UrlA THEN 10
                ELSE IF u = UrlS THEN 20
                ELSE IF u[Len(u)] = "out" THEN 60
                ELSE 20 + 10 * (CHOOSE i \in 1..MaxParts : u[Len(u)] = PartNames[i])
    IN  [i \in 1..MaxLen |-> base + i]

FileNames == {"x", "out"} \cup {PartNames[i] : i \in 1..MaxParts}

NoFile == [ex |-> FALSE, data |-> <<>>]

\* ---------------------------------------------------------------- helpers
Min(a, b) == IF a < b THEN a ELSE b

Prefix(s, n) == SubSeq(s, 1, n)

Suffix(s, from) == SubSeq(s, from + 1, Len(s))

\* --------------------------------------------------------- the retry policy
DefaultMaxRetries == 5
DefaultInitialDelay == 1
DefaultMaxDelay == 300
DefaultBackoffMultiplier == 2

\* a non-negative f64 multiplier, held as the fraction num / den
Ratio(n, d) == [num |-> n, den |-> d]

\* impl Default for DownloadRetryConfig
DefaultRetryConfig ==
    [max_retries |-> DefaultMaxRetries,
     initial_delay_secs |-> DefaultInitialDelay,
     max_delay_secs |-> DefaultMaxDelay,
     backoff_multiplier |-> Ratio(DefaultBackoffMultiplier, 1)]

RECURSIVE Pow(_, _)
Pow(b, e) == IF e = 0 THEN 1 ELSE b * Pow(b, e - 1)

\* f64 as u64 of the non-negative value p / q: the fraction is dropped
AsU64(p, q) == p \div q

\* mutant: the delay is not clamped to max_delay_secs
ClampNever(d, max_delay) == IF d < 0 THEN max_delay ELSE d

\* delay_secs.min(self.max_delay_secs)
Clamp(d, max_delay) == Min(d, max_delay)

\* DownloadRetryConfig::calculate_delay:
\* (initial_delay_secs as f64 * backoff_multiplier.powi(attempt)) as u64,
\* then min with max_delay_secs
calculate_delay(rc, n) ==
    Clamp(AsU64(rc.initial_delay_secs * Pow(rc.backoff_multiplier.num, n),
                Pow(rc.backoff_multiplier.den, n)),
          rc.max_delay_secs)

\* mutant: the sleep after attempt n lasts as long as the one after n + 1
DelayAfterNext(rc, n) == calculate_delay(rc, n + 1)

\* let delay = retry_config.calculate_delay(attempt)
DelayAfter(rc, n) == calculate_delay(rc, n)

\* for attempt in 0..=retry_config.max_retries
RetryRange(max_retries) == 0..max_retries

\* mutant: no attempt is the final one
IsFinalAttemptNever(n, max_retries) == n > max_retries /\ n < max_retries

\* mutant: the final attempt is taken to be the one before the last
IsFinalAttemptEarly(n, max_retries) == n + 1 = max_retries

\* Err(e) if attempt == retry_config.max_retries
IsFinalAttempt(n, max_retries) == n = max_retries

\* ------------------------------------------------------ paths and URL parsing
\* url.split('/').next_back(), joined to the downloads directory
FileNameOf(u) == u[Len(u)]

\* url.starts_with("s3://")
is_s3_url(u) == Len(u) >= 3 /\ u[1] = "s3:" /\ u[2] = ""

\* parse_s3_url: Ok iff the text after "s3://" holds a '/'; the key is parts[1]
S3UrlOk(u) == is_s3_url(u) /\ Len(u) >= 4

S3Key(u) == SubSeq(u, 4, Len(u))

\* ------------------------------------------------------- the per-attempt logic
\* file_path.exists() ? metadata.len() : 0
ExistingSize(f) == IF f.ex THEN Len(f.data) ELSE 0

\* a header value is the sequence of its '/'-separated segments; a segment is
\* a decimal number or some other text
Num(n) == [num |-> TRUE, n |-> n]

Text == [num |-> FALSE, n |-> 0]

Header(segs) == [present |-> TRUE, segs |-> segs]

\* headers().get(..) is None
NoHeader == [present |-> FALSE, segs |-> <<>>]

\* str::parse::<u64>: the number, or -1 for None
ParseU64(tok) == IF tok.num THEN tok.n ELSE -1

\* mutant: the segment before the first '/' is taken
LastSegmentFirst(h) == h.segs[1]

\* val.split('/').next_back()
LastSegment(h) == h.segs[Len(h.segs)]

\* the whole header value parsed as a number: a value that holds a '/' is not one
WholeValue(h) == IF Len(h.segs) = 1 THEN h.segs[1] ELSE Text

\* an Option<u64> that is None is -1; unwrap_or(0)
HeaderOrZero(h) == IF h < 0 THEN 0 ELSE h

\* total_size of the HTTP probe: from content-range if the status is 206,
\* else from content-length
ProbeTotal(resp) ==
    IF resp.status = StatusPartial
    THEN IF resp.content_range.present
         THEN HeaderOrZero(ParseU64(LastSegment(resp.content_range)))
         ELSE 0
    ELSE IF resp.content_length.present
         THEN HeaderOrZero(ParseU64(WholeValue(resp.content_length)))
         ELSE 0

\* mutant: a file of the full size is fetched again
AlreadyCompleteNever(size, total) == size = total /\ total > size

\* if file_size == total_size && total_size > 0
AlreadyComplete(size, total) == size = total /\ total > 0

\* mutant: only a 404 ends the attempt at the probe
ProbeFailedOn404(resp) == resp.status = StatusNotFound

\* the probe ends the attempt with Err: send() failed, or the status is 404
ProbeFailed(resp) == resp.status = 0 \/ resp.status = StatusNotFound

NoRange == -1

\* the Range header of the stream request: bytes={file_size}- when file_size > 0
RangeStart(size) == IF size > 0 THEN size ELSE NoRange

\* the object-storage variant: ranged get iff 0 < existing_size < total_size
S3RangeStart(size, total) == IF size > 0 /\ size < total THEN size ELSE NoRange

\* mutant: 416 is not recognised, so it is handled as any non-success status
IsRangeNotSatisfiableNever(status) == status # status

\* response.status() == RANGE_NOT_SATISFIABLE
IsRangeNotSatisfiable(status) == status = StatusRangeNotSatisfiable

\* response.status().is_success()
IsSuccess(status) == status >= 200 /\ status < 300

\* mutant: the open truncates the file
OpenForWriteTruncate(f) == [ex |-> TRUE, data |-> SubSeq(f.data, 1, 0)]

\* mutant: the counter starts at 0 also when bytes are already in the file
SeedDownloadedZero(existing) == existing - existing

\* let mut downloaded = existing_size
SeedDownloaded(existing) == existing

\* OpenOptions .create(true).write(true).append(existing_size > 0): no truncate
OpenForWrite(f) == [ex |-> TRUE, data |-> f.data]

\* write_all of a chunk through a handle: at the end in append mode, else at
\* the cursor, overwriting what is there
WriteAt(data, h, chunk) ==
    IF h.append
    THEN data \o chunk
    ELSE Prefix(data, Min(h.pos, Len(data))) \o chunk \o Suffix(data, Min(h.pos + Len(chunk), Len(data)))

\* no handle, or a handle closed after a flush
ClosedHandle == [open |-> FALSE, append |-> FALSE, pos |-> 0, dirty |-> FALSE]

\* the handle goes out of scope on a ? return: it is closed by drop, and
\* whatever was written through it since the last flush was never flushed
Dropped(h) == [open |-> FALSE, append |-> FALSE, pos |-> 0, dirty |-> h.dirty]

\* file.flush().await
Flushed(h) == [h EXCEPT !.dirty = FALSE]

\* ------------------------------------------------------------ the environment
NetErr == [status |-> 0, content_range |-> NoHeader, content_length |-> NoHeader]

\* .header(RANGE, "bytes=0-0"): the first and last byte the probe asks for
ProbeRange == <<0, 0>>

\* reqwest sends a request only to an http or https URL; send() on any other
\* scheme returns an error without touching the network
HttpScheme(u) == u[1] \in {"http:", "https:"}

\* answers of an HTTP server to the probe GET with Range: bytes=0-0
ProbeResponses(u) ==
    IF ~HttpScheme(u) THEN {NetErr} ELSE
    {NetErr}
    \cup {[status |-> StatusNotFound, content_range |-> NoHeader, content_length |-> NoHeader]}
    \cup {[status |-> StatusPartial, content_range |-> r,
           content_length |-> Header(<<Num(ProbeRange[2] - ProbeRange[1] + 1)>>)] :
            r \in {NoHeader, Header(<<Text, Text>>), Header(<<Text, Num(Len(Remote(u)))>>)}}
    \cup {[status |-> StatusOk, content_range |-> NoHeader, content_length |-> c] :
            c \in {NoHeader, Header(<<Text>>), Header(<<Num(Len(Remote(u)))>>)}}
    \cup {[status |-> StatusOk, content_range |-> Header(<<Text, Num(Len(Remote(u)))>>),
           content_length |-> NoHeader]}
    \cup {[status |-> StatusServerError, content_range |-> NoHeader, content_length |-> c] :
            c \in {NoHeader} \cup {Header(<<Num(n)>>) : n \in 0..MaxLen}}

\* answers of an HTTP server to the stream GET; range = NoRange or the start
\* offset.  A server that honours the range answers 206 with the bytes from
\* the offset, or 416 when the offset is not inside the object; a server that
\* ignores it answers 200 with the whole object.
StreamResponses(u, range) ==
    {[status |-> 0, body |-> <<>>]}
    \cup {[status |-> StatusServerError, body |-> <<>>]}
    \cup {[status |-> StatusOk, body |-> Remote(u)]}
    \cup (IF range = NoRange THEN {}
          ELSE IF range < Len(Remote(u))
               THEN {[status |-> StatusPartial, body |-> Suffix(Remote(u), range)]}
               ELSE {[status |-> StatusRangeNotSatisfiable, body |-> <<>>]})

\* answers of the object store to head_object: an error (the object does not
\* exist, or anything else), or the metadata, in which content_length() is
\* the object length or None (-1)
HeadResponses(u) ==
    {[ok |-> FALSE, not_found |-> nf, content_length |-> -1] : nf \in BOOLEAN}
    \cup {[ok |-> TRUE, not_found |-> FALSE, content_length |-> c] :
            c \in {-1, Len(Remote(u))}}

\* answers of the object store to get_object
GetResponses(u, range) ==
    {[ok |-> FALSE, body |-> <<>>]}
    \cup {[ok |-> TRUE,
           body |-> IF range = NoRange THEN Remote(u)
                    ELSE Suffix(Remote(u), Min(range, Len(Remote(u))))]}

\* ------------------------------------------------------------- configurations
\* a policy whose delays are floored (3 * 1.5 = 4.5) and clamped (6.75 > 5)
CustomRetryConfig ==
    [max_retries |-> 3,
     initial_delay_secs |-> 3,
     max_delay_secs |-> 5,
     backoff_multiplier |-> Ratio(3, 2)]

\* the download_retry sections of config.yaml
RetryConfigs ==
    [max_retries : 0..MaxRetries,
     initial_delay_secs : {DefaultInitialDelay},
     max_delay_secs : {DefaultMaxDelay},
     backoff_multiplier : {Ratio(DefaultBackoffMultiplier, 1)}]
    \cup {CustomRetryConfig}

\* snapshot_url: String with #[serde(default)]: absent is the empty string
NoUrl == <<>>

\* snapshot_filename: Option<String>: absent is None
NoFilename == ""

\* the snapshot settings of config.yaml
SnapshotSettings ==
    {[snapshot_url |-> UrlA, snapshot_urls |-> <<>>, snapshot_filename |-> NoFilename],
     [snapshot_url |-> UrlS, snapshot_urls |-> <<>>, snapshot_filename |-> NoFilename],
     [snapshot_url |-> UrlBad, snapshot_urls |-> <<>>, snapshot_filename |-> NoFilename],
     [snapshot_url |-> NoUrl, snapshot_urls |-> PartUrls, snapshot_filename |-> "out"],
     [snapshot_url |-> NoUrl, snapshot_urls |-> PartUrlsS3, snapshot_filename |-> "out"],
     [snapshot_url |-> NoUrl, snapshot_urls |-> PartUrls, snapshot_filename |-> NoFilename],
     [snapshot_url |-> NoUrl, snapshot_urls |-> <<UrlA>>, snapshot_filename |-> NoFilename]}

\* snapshot_urls of one element beside a snapshot_url and a snapshot_filename
OneOfListYaml ==
    [snapshot_url |-> UrlA,
     snapshot_urls |-> <<UrlS>>,
     snapshot_filename |-> "out",
     download_retry |-> [DefaultRetryConfig EXCEPT !.max_retries = 1]]

\* neither snapshot_url nor snapshot_urls
EmptyYaml ==
    [snapshot_url |-> NoUrl,
     snapshot_urls |-> <<>>,
     snapshot_filename |-> NoFilename,
     download_retry |-> [DefaultRetryConfig EXCEPT !.max_retries = 1]]

\* config.yaml as serde deserialises it
Yamls ==
    {[snapshot_url |-> s.snapshot_url,
      snapshot_urls |-> s.snapshot_urls,
      snapshot_filename |-> s.snapshot_filename,
      download_retry |-> r] : s \in SnapshotSettings, r \in RetryConfigs}
    \cup {[snapshot_url |-> NoUrl,
            snapshot_urls |-> ClashUrls,
            snapshot_filename |-> "out",
            download_retry |-> [DefaultRetryConfig EXCEPT !.max_retries = 1]],
           OneOfListYaml,
           EmptyYaml}

\* Config::from_file: the validation of snapshot_filename, and the default
\* retry policy in place of one whose max_retries is 0
from_file(y) ==
    [ok |-> ~(y.snapshot_urls # <<>> /\ y.snapshot_filename = NoFilename),
     config |-> [y EXCEPT !.download_retry =
                    IF @.max_retries = 0 THEN DefaultRetryConfig ELSE @]]

Configs == {from_file(y).config : y \in Yamls}

\* mutant: snapshot_url is preferred to snapshot_urls
get_snapshot_urls_prefer_url(c) ==
    IF c.snapshot_url # NoUrl THEN <<c.snapshot_url>>
    ELSE IF c.snapshot_urls # <<>> THEN c.snapshot_urls
    ELSE <<>>

\* Config::get_snapshot_urls: snapshot_urls if not empty, else snapshot_url
get_snapshot_urls(c) ==
    IF c.snapshot_urls # <<>> THEN c.snapshot_urls
    ELSE IF c.snapshot_url # NoUrl THEN <<c.snapshot_url>>
    ELSE <<>>

\* mutant: the configured snapshot_filename whenever there is one
get_snapshot_filename_configured(c) ==
    LET urls == get_snapshot_urls(c)
    IN  IF urls = <<>> THEN [ok |-> FALSE, name |-> ""]
        ELSE IF c.snapshot_filename = NoFilename
             THEN [ok |-> TRUE, name |-> FileNameOf(urls[1])]
             ELSE [ok |-> TRUE, name |-> c.snapshot_filename]

\* Config::get_snapshot_filename: an error without URLs, the last segment of
\* the only URL, the configured snapshot_filename of a multipart snapshot
get_snapshot_filename(c) ==
    LET urls == get_snapshot_urls(c)
    IN  IF urls = <<>> THEN [ok |-> FALSE, name |-> ""]
        ELSE IF Len(urls) = 1 THEN [ok |-> TRUE, name |-> FileNameOf(urls[1])]
        ELSE [ok |-> c.snapshot_filename # NoFilename, name |-> c.snapshot_filename]

\* ------------------------------------------------------------- TOML values
\* the keys of the tables
TomlKeys == {"a", "b"}

\* TomlValue::Integer
Integer(n) == [kind |-> "integer", val |-> n]

\* TomlValue::Table: a map from some of the keys to values
Table(entries) == [kind |-> "table", val |-> entries]

IsTable(v) == v.kind = "table"

TablesOver(values) ==
    {Table(f) : f \in UNION {[K -> values] : K \in SUBSET TomlKeys}}

TomlLeaves == {Integer(n) : n \in 1..TomlScalars}

\* the values under the keys of a document: scalars and tables of scalars
TomlValues == TomlLeaves \cup TablesOver(TomlLeaves)

\* toml::from_str gives a table; so does yaml_to_toml of a YAML mapping
TomlDocs == TablesOver(TomlValues)

EmptyTable == Table([k \in {} |-> Integer(0)])

\* mutant: a value that is not a pair of tables keeps the target
ReplaceKeepsTarget(target, source) == target

\* the arm (target, source) => *target = source.clone()
Replace(target, source) == source

\* mutant: a key the target lacks is not inserted
InsertNothing(target_table, key, source_value) == target_table

\* target_table.insert(key, source_value.clone()) for a key not in the table
Insert(target_table, key, source_value) ==
    [k \in DOMAIN target_table \cup {key} |->
        IF k = key THEN source_value ELSE target_table[k]]

RECURSIVE merge_toml_values(_, _)
RECURSIVE MergeEntries(_, _, _)

\* the for loop over source_table: a key the target has is merged in place,
\* any other key is inserted
MergeEntries(target_table, source_table, keys) ==
    IF keys = {} THEN target_table
    ELSE LET key == CHOOSE k \in keys : TRUE
             merged == IF key \in DOMAIN target_table
                       THEN [target_table EXCEPT
                               ![key] = merge_toml_values(@, source_table[key])]
                       ELSE Insert(target_table, key, source_table[key])
         IN  MergeEntries(merged, source_table, keys \ {key})

\* TomlModifier::merge_toml_values: the value of target after the call
merge_toml_values(target, source) ==
    IF IsTable(target) /\ IsTable(source)
    THEN Table(MergeEntries(target.val, source.val, DOMAIN source.val))
    ELSE Replace(target, source)

\* the two threads that read the output of the binary
Threads == {"stdout", "stderr"}

\* the lines of a stream: TRUE for a line that contains post_start_pattern
LineSeqs == UNION {[1..n -> BOOLEAN] : n \in 0..MaxLines}

\* mutant: the command runs whatever the flag says
ShouldExecuteAlways(executed) == executed \/ ~executed

\* if !*executed
ShouldExecute(executed) == ~executed

\* ----------------------------------------------------------------- the state
VARIABLES
    yaml,         \* config.yaml as the user wrote it
    cfg,          \* the Config that Config::from_file made of it
    fs,           \* the downloads directory: file name -> [ex, data]
    calls,        \* invocations of download_snapshot so far
    pc,           \* where the running invocation stands
    result,       \* what the last invocation returned: [status, path]
    variant,      \* "http" (download_file) or "s3" (download_s3_file)
    url,          \* the url argument of the running fetch
    attempt,      \* the loop variable of download_file / download_s3_file
    fetchRes,     \* what the fetch returned to its caller: "ok" or "err"
    err,          \* the e of the last attempt that returned Err(e)
    file_path,    \* download_file_attempt: the destination file name
    file_size,    \* download_file_attempt: file_size / existing_size
    total_size,   \* download_file_attempt: total_size
    reader,       \* the bytes of the response body not yet read
    file,         \* download_async_read_to_file: the handle [open, append, pos]
    downloaded,   \* download_async_read_to_file: downloaded
    pb,           \* the position of the progress bar
    part_idx,     \* download_all_parts: 1-based index of the part in hand
    part_paths,   \* download_all_parts: part_paths
    cat_idx,      \* concatenate_files: 1-based index of the part to copy next
    attemptLog,   \* history: attempt numbers of the running fetch, in order
    sleepLog,     \* history: durations slept by the running fetch, in order
    probes,       \* history: probe / head requests sent by the running fetch
    requests,     \* history: range starts of the stream requests of the fetch
    lastStatus,   \* history: status of the last answer to a stream request
    lastProbe,    \* history: status of the answer to the probe of this attempt
    bytesRead,    \* history: bytes the running fetch has read from body streams
    partState,    \* history: part index -> "none", "started" or "done"
    removed,      \* history: files the running invocation deleted
    remove_failed, \* history: indexes of part_paths whose remove_file failed
    fs0,          \* history: the downloads directory when the invocation began
    faults,       \* failures the environment has injected so far
    skip_path,    \* main: the snapshot path of a run that skips the download
    toml_value,   \* modify_toml: the document of the TOML file
    yaml_as_toml, \* modify_toml: the configured changes as a TOML value
    toml_before,  \* history: the document before the last modify_toml
    merges,       \* history: runs of modify_toml so far
    post_start_cmd,      \* run_binary_start: whether post_start_command is Some
    lines,               \* thread -> the lines of its stream not yet read
    tpc,                 \* thread -> where the reader thread stands
    post_start_executed, \* the flag in the Mutex
    mutex,               \* the thread that holds the guard, or "none"
    executions,          \* history: calls of execute_post_start_command
    matched              \* history: thread -> lines with the pattern it has read

confv == <<yaml, cfg, skip_path>>
callv == <<calls, result, fs0>>
envv == <<faults>>
fetchv == <<variant, url, attempt, fetchRes, err>>
attemptv == <<file_path, file_size, total_size>>
writerv == <<reader, file, downloaded, pb>>
multiv == <<part_idx, part_paths, cat_idx, partState, removed, remove_failed>>
histv == <<attemptLog, sleepLog, probes, requests, lastStatus, lastProbe, bytesRead>>

tomlv == <<toml_value, yaml_as_toml, toml_before, merges>>
runv == <<post_start_cmd, lines, tpc, post_start_executed, mutex, executions, matched>>

downloadv == <<yaml, cfg, fs, calls, pc, result, variant, url, attempt, fetchRes, err,
               file_path, file_size, total_size, reader, file, downloaded, pb,
               part_idx, part_paths, cat_idx, attemptLog, sleepLog, probes,
               requests, lastStatus, lastProbe, bytesRead, partState, removed,
               remove_failed, fs0, faults, skip_path>>

vars == <<downloadv, tomlv, runv>>

\* an anyhow error as the caller sees it: the attempt that made it (history)
\* and the attempt count its message carries, 0 when it carries none
NoErr == [attempt |-> -1, attempts |-> 0]

\* the Err(e) of download_file_attempt / download_s3_file_attempt
AttemptError(n) == [attempt |-> n, attempts |-> 0]

\* return Err(e): the error of the final attempt goes to the caller as it is
ReturnedError(e) == e

NoResult == [status |-> "none", path |-> ""]

\* no run has skipped the download
NoSkip == [ok |-> FALSE, name |-> ""]

NoParts == [i \in 1..MaxParts |-> "none"]

\* main before the TOML files are modified
TomlIdle ==
    /\ toml_value = EmptyTable
    /\ yaml_as_toml = EmptyTable
    /\ toml_before = EmptyTable
    /\ merges = 0

\* main before run_binary_start
RunnerIdle ==
    /\ post_start_cmd = FALSE
    /\ lines = [t \in Threads |-> <<>>]
    /\ tpc = [t \in Threads |-> "unspawned"]
    /\ post_start_executed = FALSE
    /\ mutex = "none"
    /\ executions = 0
    /\ matched = [t \in Threads |-> 0]

\* main up to the first download: config.yaml is loaded, and main returns
\* the error of Config::from_file if there is one
DownloadInit ==
    /\ yaml \in Yamls
    /\ cfg = from_file(yaml).config
    /\ fs = [f \in FileNames |-> NoFile]
    /\ calls = 0
    /\ pc = IF from_file(yaml).ok THEN "idle" ELSE "config_error"
    /\ result = NoResult
    /\ variant = "http"
    /\ url = UrlA
    /\ attempt = 0
    /\ fetchRes = "none"
    /\ err = NoErr
    /\ file_path = ""
    /\ file_size = 0
    /\ total_size = 0
    /\ reader = <<>>
    /\ file = ClosedHandle
    /\ downloaded = 0
    /\ pb = 0
    /\ part_idx = 0
    /\ part_paths = <<>>
    /\ cat_idx = 0
    /\ attemptLog = <<>>
    /\ sleepLog = <<>>
    /\ probes = 0
    /\ requests = <<>>
    /\ lastStatus = 0
    /\ lastProbe = 0
    /\ bytesRead = 0
    /\ partState = NoParts
    /\ removed = {}
    /\ remove_failed = {}
    /\ fs0 = fs
    /\ faults = 0
    /\ skip_path = NoSkip

Init == DownloadInit /\ TomlIdle /\ RunnerIdle

\* a fetch begins: download_file or download_s3_file is entered
BeginFetch(u, v) ==
    /\ url' = u
    /\ variant' = v
    /\ attempt' = 0
    /\ fetchRes' = "none"
    /\ err' = NoErr
    /\ attemptLog' = <<>>
    /\ sleepLog' = <<>>
    /\ requests' = <<>>
    /\ lastStatus' = 0
    /\ lastProbe' = 0
    /\ bytesRead' = 0
    /\ reader' = <<>>
    /\ pc' = "attempt"

\* main.rs download_snapshot: no URL is an error, one URL is a single-file
\* fetch by scheme, several are a multipart transfer
download_snapshot ==
    /\ pc = "idle"
    /\ calls < MaxCalls
    /\ calls' = calls + 1
    /\ result' = IF get_snapshot_urls(cfg) = <<>> THEN [status |-> "err", path |-> ""]
                 ELSE NoResult
    /\ fs0' = fs
    /\ partState' = NoParts
    /\ removed' = {}
    /\ remove_failed' = {}
    /\ probes' = 0
    /\ part_idx' = 0
    /\ part_paths' = <<>>
    /\ cat_idx' = 0
    /\ LET urls == get_snapshot_urls(cfg)
       IN  IF Len(urls) = 1
           THEN BeginFetch(urls[1], IF is_s3_url(urls[1]) THEN "s3" ELSE "http")
           ELSE /\ pc' = IF urls = <<>> THEN "idle" ELSE "multipart"
                /\ attemptLog' = <<>>
                /\ sleepLog' = <<>>
                /\ requests' = <<>>
                /\ lastStatus' = 0
                /\ lastProbe' = 0
                /\ bytesRead' = 0
                /\ reader' = <<>>
                /\ UNCHANGED fetchv
    /\ skip_path' = NoSkip
    /\ UNCHANGED <<tomlv, runv, yaml, cfg, fs, attemptv, file, downloaded, pb, faults>>

\* main with --skip-download-snapshot: nothing is downloaded, the snapshot
\* is the file named by get_snapshot_filename in the downloads directory
skip_download_snapshot ==
    /\ pc = "idle"
    /\ skip_path' = get_snapshot_filename(cfg)
    /\ UNCHANGED <<tomlv, runv, yaml, cfg, fs, callv, pc, envv, fetchv, attemptv, writerv,
                   multiv, histv>>

\* the environment injects a failure only while its budget lasts
Fault(b) ==
    /\ b => faults < MaxFaults
    /\ faults' = IF b THEN faults + 1 ELSE faults

\* the match on the attempt's result in download_file / download_s3_file:
\* Ok returns, Err on the final attempt returns, any other Err sleeps
AttemptEnds(ok) ==
    IF ok
    THEN pc' = "returned" /\ fetchRes' = "ok" /\ err' = err
    ELSE IF IsFinalAttempt(attempt, cfg.download_retry.max_retries)
         THEN pc' = "returned" /\ fetchRes' = "err"
              /\ err' = ReturnedError(AttemptError(attempt))
         ELSE pc' = "sleep" /\ fetchRes' = fetchRes /\ err' = AttemptError(attempt)

\* sleep(delay).await, then the next iteration of the loop
retry_sleep ==
    /\ pc = "sleep"
    /\ sleepLog' = Append(sleepLog, DelayAfter(cfg.download_retry, attempt))
    /\ attempt' = attempt + 1
    /\ pc' = "attempt"
    /\ UNCHANGED <<tomlv, runv, confv, fs, callv, envv, variant, url, fetchRes, err, attemptv,
                   writerv, multiv, attemptLog, probes, requests, lastStatus,
                   lastProbe, bytesRead>>

\* download_file_attempt up to the probe: the file name and the stat
http_attempt_stat ==
    /\ pc = "attempt"
    /\ variant = "http"
    /\ attempt \in RetryRange(cfg.download_retry.max_retries)
    /\ attemptLog' = Append(attemptLog, attempt)
    /\ file_path' = FileNameOf(url)
    /\ file_size' = ExistingSize(fs[FileNameOf(url)])
    /\ total_size' = 0
    /\ pc' = "probe"
    /\ lastProbe' = 0
    /\ reader' = <<>>
    /\ UNCHANGED <<tomlv, runv, confv, fs, callv, envv, fetchv, file, downloaded, pb, multiv,
                   sleepLog, probes, requests, lastStatus, bytesRead>>

\* the probe GET (bytes=0-0), the 404 exit and the already-complete exit
http_attempt_probe ==
    /\ pc = "probe"
    /\ variant = "http"
    /\ probes' = probes + 1
    /\ \E resp \in ProbeResponses(url) :
         /\ Fault(HttpScheme(url) /\ resp.status \notin {StatusOk, StatusPartial})
         /\ lastProbe' = resp.status
         /\ IF ProbeFailed(resp)
            THEN /\ AttemptEnds(FALSE)
                 /\ total_size' = total_size
            ELSE /\ total_size' = ProbeTotal(resp)
                 /\ IF AlreadyComplete(file_size, ProbeTotal(resp))
                    THEN AttemptEnds(TRUE)
                    ELSE pc' = "request" /\ fetchRes' = fetchRes /\ err' = err
    /\ UNCHANGED <<tomlv, runv, confv, fs, callv, variant, url, attempt, file_path, file_size,
                   writerv, multiv, attemptLog, sleepLog, requests, lastStatus,
                   bytesRead>>

\* the stream GET, with a Range header when file_size > 0; 416 is success,
\* any other non-success status an error
http_attempt_request ==
    /\ pc = "request"
    /\ variant = "http"
    /\ requests' = Append(requests, RangeStart(file_size))
    /\ \E resp \in StreamResponses(url, RangeStart(file_size)) :
         /\ Fault(\/ resp.status \in {0, StatusServerError}
                  \/ resp.status = StatusOk /\ RangeStart(file_size) # NoRange)
         /\ lastStatus' = resp.status
         /\ IF resp.status = 0
            THEN AttemptEnds(FALSE) /\ reader' = reader
            ELSE IF IsRangeNotSatisfiable(resp.status)
            THEN AttemptEnds(TRUE) /\ reader' = reader
            ELSE IF ~IsSuccess(resp.status)
            THEN AttemptEnds(FALSE) /\ reader' = reader
            ELSE pc' = "open" /\ fetchRes' = fetchRes /\ err' = err /\ reader' = resp.body
    /\ UNCHANGED <<tomlv, runv, confv, fs, callv, variant, url, attempt, attemptv, file,
                   downloaded, pb, multiv, attemptLog, sleepLog, probes,
                   lastProbe, bytesRead>>

\* download_async_read_to_file up to the loop: the progress bar is seeded and
\* the file is opened (created if missing, never truncated)
writer_open ==
    /\ pc = "open"
    /\ pb' = file_size
    /\ \/ /\ fs' = [fs EXCEPT ![file_path] = OpenForWrite(@)]
          /\ file' = [open |-> TRUE, append |-> file_size > 0, pos |-> 0, dirty |-> FALSE]
          /\ downloaded' = SeedDownloaded(file_size)
          /\ pc' = "read"
          /\ UNCHANGED <<fetchRes, err, faults, reader>>
       \/ /\ Fault(TRUE)
          /\ AttemptEnds(FALSE)
          /\ reader' = <<>>
          /\ UNCHANGED <<fs, file, downloaded>>
    /\ UNCHANGED <<tomlv, runv, confv, callv, variant, url, attempt, attemptv, multiv, histv>>

\* one turn of the loop that reads a chunk and writes it with
\* write_chunk_with_progress
writer_chunk ==
    /\ pc = "read"
    /\ \E n \in 1..Min(BufferSize, Len(reader)) :
         LET chunk == Prefix(reader, n)
         IN  /\ fs' = [fs EXCEPT ![file_path].data = WriteAt(@, file, chunk)]
             /\ file' = [file EXCEPT !.pos = @ + n, !.dirty = TRUE]
             /\ downloaded' = downloaded + n
             /\ pb' = downloaded + n
             /\ reader' = Suffix(reader, n)
             /\ bytesRead' = bytesRead + n
    /\ UNCHANGED <<tomlv, runv, confv, callv, envv, pc, fetchv, attemptv, multiv,
                   attemptLog, sleepLog, probes, requests, lastStatus, lastProbe>>

\* the read of the stream fails: the attempt fails and the handle is dropped
writer_read_error ==
    /\ pc = "read"
    /\ Fault(TRUE)
    /\ file' = Dropped(file)
    /\ reader' = <<>>
    /\ AttemptEnds(FALSE)
    /\ UNCHANGED <<tomlv, runv, confv, fs, callv, variant, url, attempt, attemptv,
                   downloaded, pb, multiv, histv>>

\* write_all fails after j bytes of the chunk reached the file
writer_write_error ==
    /\ pc = "read"
    /\ Fault(TRUE)
    /\ \E n \in 1..Min(BufferSize, Len(reader)) : \E j \in 0..(n - 1) :
         fs' = [fs EXCEPT ![file_path].data = WriteAt(@, file, Prefix(reader, j))]
    /\ file' = Dropped(file)
    /\ reader' = <<>>
    /\ AttemptEnds(FALSE)
    /\ UNCHANGED <<tomlv, runv, confv, callv, variant, url, attempt, attemptv,
                   downloaded, pb, multiv, histv>>

\* a read of zero bytes ends the loop: flush, drop the handle, Ok
writer_eof ==
    /\ pc = "read"
    /\ Len(reader) = 0
    /\ Fault(FALSE)
    /\ file' = Dropped(Flushed(file))
    /\ AttemptEnds(TRUE)
    /\ UNCHANGED <<tomlv, runv, confv, fs, callv, variant, url, attempt, attemptv, reader,
                   downloaded, pb, multiv, histv>>

\* the same, when the stream of the HTTP variant ends before the whole body
\* arrived (a body delimited by the close of the connection); the object
\* store's body carries its length, so its early end is a read error
writer_early_eof ==
    /\ pc = "read"
    /\ Len(reader) > 0
    /\ variant = "http"
    /\ Fault(TRUE)
    /\ file' = Dropped(Flushed(file))
    /\ AttemptEnds(TRUE)
    /\ UNCHANGED <<tomlv, runv, confv, fs, callv, variant, url, attempt, attemptv, reader,
                   downloaded, pb, multiv, histv>>

\* file.flush() fails after the last read
writer_flush_error ==
    /\ pc = "read"
    /\ Len(reader) = 0
    /\ Fault(TRUE)
    /\ file' = Dropped(file)
    /\ AttemptEnds(FALSE)
    /\ UNCHANGED <<tomlv, runv, confv, fs, callv, variant, url, attempt, attemptv, reader,
                   downloaded, pb, multiv, histv>>

\* download_s3_file_attempt up to head_object: parse_s3_url, the client, the
\* file name from the key, check_existing_file
s3_attempt_stat ==
    /\ pc = "attempt"
    /\ variant = "s3"
    /\ attempt \in RetryRange(cfg.download_retry.max_retries)
    /\ attemptLog' = Append(attemptLog, attempt)
    /\ total_size' = 0
    /\ IF S3UrlOk(url)
       THEN /\ file_path' = FileNameOf(S3Key(url))
            /\ file_size' = ExistingSize(fs[FileNameOf(S3Key(url))])
            /\ pc' = "probe"
            /\ fetchRes' = fetchRes
            /\ err' = err
       ELSE /\ AttemptEnds(FALSE)
            /\ UNCHANGED <<file_path, file_size>>
    /\ lastProbe' = 0
    /\ reader' = <<>>
    /\ UNCHANGED <<tomlv, runv, confv, fs, callv, envv, variant, url, attempt, file, downloaded, pb,
                   multiv, sleepLog, probes, requests, lastStatus, bytesRead>>

\* head_object and the already-complete exit
s3_attempt_head ==
    /\ pc = "probe"
    /\ variant = "s3"
    /\ probes' = probes + 1
    /\ \E resp \in HeadResponses(url) :
         /\ Fault(~resp.ok \/ resp.content_length < 0)
         /\ lastProbe' = IF resp.ok THEN StatusOk
                          ELSE IF resp.not_found THEN StatusNotFound ELSE 0
         /\ IF ~resp.ok
            THEN /\ AttemptEnds(FALSE)
                 /\ total_size' = total_size
            ELSE /\ total_size' = HeaderOrZero(resp.content_length)
                 /\ IF AlreadyComplete(file_size, HeaderOrZero(resp.content_length))
                    THEN AttemptEnds(TRUE)
                    ELSE pc' = "request" /\ fetchRes' = fetchRes /\ err' = err
    /\ UNCHANGED <<tomlv, runv, confv, fs, callv, variant, url, attempt, file_path, file_size,
                   writerv, multiv, attemptLog, sleepLog, requests, lastStatus,
                   bytesRead>>

\* get_object, ranged when 0 < existing_size < total_size
s3_attempt_get ==
    /\ pc = "request"
    /\ variant = "s3"
    /\ requests' = Append(requests, S3RangeStart(file_size, total_size))
    /\ \E resp \in GetResponses(url, S3RangeStart(file_size, total_size)) :
         /\ Fault(~resp.ok)
         /\ lastStatus' = IF resp.ok THEN StatusOk ELSE 0
         /\ IF resp.ok
            THEN pc' = "open" /\ fetchRes' = fetchRes /\ err' = err /\ reader' = resp.body
            ELSE AttemptEnds(FALSE) /\ reader' = reader
    /\ UNCHANGED <<tomlv, runv, confv, fs, callv, variant, url, attempt, attemptv, file,
                   downloaded, pb, multiv, attemptLog, sleepLog, probes,
                   lastProbe, bytesRead>>

\* the single-file fetch returns to download_snapshot, which returns
single_return ==
    /\ pc = "returned"
    /\ Len(get_snapshot_urls(cfg)) = 1
    /\ result' = [status |-> fetchRes, path |-> IF fetchRes = "ok" THEN file_path ELSE ""]
    /\ pc' = "idle"
    /\ UNCHANGED <<tomlv, runv, confv, fs, calls, fs0, envv, fetchv, attemptv, writerv,
                   multiv, histv>>

\* mutant: the existence check of the final file is skipped
FinalExistsNever(dir, name) == dir[name].ex /\ ~dir[name].ex

\* final_path.exists()
FinalExists(dir, name) == dir[name].ex

\* download_multipart_snapshot up to download_all_parts: an existing final
\* file is returned at once
multipart_enter ==
    /\ pc = "multipart"
    /\ IF FinalExists(fs, cfg.snapshot_filename)
       THEN /\ result' = [status |-> "ok", path |-> cfg.snapshot_filename]
            /\ pc' = "idle"
            /\ UNCHANGED <<part_idx, part_paths>>
       ELSE /\ part_idx' = 1
            /\ part_paths' = <<>>
            /\ pc' = "parts"
            /\ result' = result
    /\ UNCHANGED <<tomlv, runv, confv, fs, calls, fs0, envv, fetchv, attemptv, writerv,
                   cat_idx, partState, removed, remove_failed, histv>>

\* download_all_parts: the head of the loop over the URLs; every part is
\* fetched with download_file
parts_next ==
    /\ pc = "parts"
    /\ IF part_idx <= Len(get_snapshot_urls(cfg))
       THEN /\ BeginFetch(get_snapshot_urls(cfg)[part_idx], "http")
            /\ partState' = [partState EXCEPT ![part_idx] = "started"]
       ELSE /\ pc' = "concat_open"
            /\ UNCHANGED <<fetchv, attemptLog, sleepLog, requests, lastStatus,
                           lastProbe, bytesRead, reader, partState>>
    /\ UNCHANGED <<tomlv, runv, confv, fs, callv, envv, attemptv, file, downloaded, pb, part_idx,
                   part_paths, cat_idx, removed, remove_failed, probes>>

\* mutant: the error of a part is dropped and the loop goes on
PartOutcomeIgnoreErr(res) == IF res \in {"ok", "err"} THEN "push" ELSE "fail"

\* what download_all_parts does with the result of a part: Ok pushes the
\* path and moves on, Err returns (the ? operator)
PartOutcome(res) == IF res = "ok" THEN "push" ELSE "fail"

\* download_file(...).await? in download_all_parts, and the ? of its caller
parts_return ==
    /\ pc = "returned"
    /\ Len(get_snapshot_urls(cfg)) > 1
    /\ IF PartOutcome(fetchRes) = "push"
       THEN /\ part_paths' = Append(part_paths, file_path)
            /\ partState' = [partState EXCEPT ![part_idx] =
                                IF fetchRes = "ok" THEN "done" ELSE "failed"]
            /\ part_idx' = part_idx + 1
            /\ pc' = "parts"
            /\ result' = result
       ELSE /\ result' = [status |-> "err", path |-> ""]
            /\ pc' = "idle"
            /\ UNCHANGED <<part_idx, part_paths, partState>>
    /\ UNCHANGED <<tomlv, runv, confv, fs, calls, fs0, envv, fetchv, attemptv, writerv,
                   cat_idx, removed, remove_failed, histv>>

\* concatenate_files: the output file is created, or truncated if it exists
concat_open ==
    /\ pc = "concat_open"
    /\ \/ /\ fs' = [fs EXCEPT ![cfg.snapshot_filename] = [ex |-> TRUE, data |-> <<>>]]
          /\ cat_idx' = 1
          /\ pc' = "concat_copy"
          /\ UNCHANGED <<result, faults>>
       \/ /\ Fault(TRUE)
          /\ result' = [status |-> "err", path |-> ""]
          /\ pc' = "idle"
          /\ UNCHANGED <<fs, cat_idx>>
    /\ UNCHANGED <<tomlv, runv, confv, calls, fs0, fetchv, attemptv, writerv, part_idx,
                   part_paths, partState, removed, remove_failed, histv>>

\* concatenate_files: one turn of the loop: open the part and copy it to the
\* end of the output
concat_copy ==
    /\ pc = "concat_copy"
    /\ cat_idx <= Len(part_paths)
    /\ fs[part_paths[cat_idx]].ex
    /\ fs' = [fs EXCEPT ![cfg.snapshot_filename].data = @ \o fs[part_paths[cat_idx]].data]
    /\ cat_idx' = cat_idx + 1
    /\ UNCHANGED <<tomlv, runv, confv, callv, envv, pc, fetchv, attemptv, writerv, part_idx,
                   part_paths, partState, removed, remove_failed, histv>>

\* concatenate_files: the part cannot be opened, or the copy fails after j
\* bytes reached the output
concat_copy_error ==
    /\ pc = "concat_copy"
    /\ cat_idx <= Len(part_paths)
    /\ Fault(fs[part_paths[cat_idx]].ex)
    /\ \E j \in 0..Len(fs[part_paths[cat_idx]].data) :
         fs' = [fs EXCEPT ![cfg.snapshot_filename].data =
                              @ \o Prefix(fs[part_paths[cat_idx]].data, j)]
    /\ result' = [status |-> "err", path |-> ""]
    /\ pc' = "idle"
    /\ UNCHANGED <<tomlv, runv, confv, calls, fs0, fetchv, attemptv, writerv, part_idx,
                   part_paths, cat_idx, partState, removed, remove_failed, histv>>

RECURSIVE RemoveAllStop(_, _, _, _)
\* mutant: the loop ends at the first remove_file that fails
RemoveAllStop(dir, paths, i, refused) ==
    IF i > Len(paths) THEN dir
    ELSE IF dir[paths[i]].ex /\ i \notin refused
         THEN RemoveAllStop([dir EXCEPT ![paths[i]] = NoFile], paths, i + 1, refused)
         ELSE dir

RECURSIVE RemoveAll(_, _, _, _)
\* cleanup_part_files: remove_file on every path in order; a removal fails
\* when the file is not there or when the environment refuses it
RemoveAll(dir, paths, i, refused) ==
    IF i > Len(paths) THEN dir
    ELSE IF dir[paths[i]].ex /\ i \notin refused
         THEN RemoveAll([dir EXCEPT ![paths[i]] = NoFile], paths, i + 1, refused)
         ELSE RemoveAll(dir, paths, i + 1, refused)

\* the end of download_multipart_snapshot: cleanup_part_files, then Ok
multipart_cleanup ==
    /\ pc = "concat_copy"
    /\ cat_idx > Len(part_paths)
    /\ \E refused \in SUBSET (1..Len(part_paths)) :
         /\ Fault(refused # {})
         /\ fs' = RemoveAll(fs, part_paths, 1, refused)
         /\ removed' = {f \in FileNames : fs[f].ex /\ ~RemoveAll(fs, part_paths, 1, refused)[f].ex}
         /\ remove_failed' = refused
    /\ result' = [status |-> "ok", path |-> cfg.snapshot_filename]
    /\ pc' = "idle"
    /\ UNCHANGED <<tomlv, runv, confv, calls, fs0, fetchv, attemptv, writerv, part_idx,
                   part_paths, cat_idx, partState, histv>>

\* the process is killed, or the task abandoned, while an invocation runs;
\* what is on disk stays
abandon ==
    /\ pc \notin {"idle", "config_error"}
    /\ Fault(TRUE)
    /\ pc' = "idle"
    /\ result' = [status |-> "abandoned", path |-> ""]
    /\ file' = Dropped(file)
    /\ reader' = <<>>
    /\ UNCHANGED <<tomlv, runv, confv, fs, calls, fs0, fetchv, attemptv, downloaded, pb,
                   multiv, histv>>

Next ==
    \/ download_snapshot
    \/ retry_sleep
    \/ http_attempt_stat
    \/ http_attempt_probe
    \/ http_attempt_request
    \/ writer_open
    \/ writer_chunk
    \/ writer_read_error
    \/ writer_write_error
    \/ writer_eof
    \/ writer_early_eof
    \/ writer_flush_error
    \/ s3_attempt_stat
    \/ s3_attempt_head
    \/ s3_attempt_get
    \/ single_return
    \/ multipart_enter
    \/ parts_next
    \/ parts_return
    \/ concat_open
    \/ concat_copy
    \/ concat_copy_error
    \/ multipart_cleanup
    \/ abandon

Spec == Init /\ [][Next]_vars

\* runs of main with and without --skip-download-snapshot, under the
\* configurations of one retry policy: the policy has no part in the paths
InitSkip == Init /\ yaml.download_retry.max_retries = 1

NextSkip == Next \/ skip_download_snapshot

SpecSkip == InitSkip /\ [][NextSkip]_vars

\* the configurations of one URL: download_snapshot is one fetch
InitFetch == Init /\ Len(get_snapshot_urls(cfg)) = 1

\* the steps of a single-file download_snapshot
FetchRun ==
    \/ download_snapshot
    \/ retry_sleep
    \/ http_attempt_stat
    \/ http_attempt_probe
    \/ http_attempt_request
    \/ writer_open
    \/ writer_chunk
    \/ writer_read_error
    \/ writer_write_error
    \/ writer_eof
    \/ writer_early_eof
    \/ writer_flush_error
    \/ s3_attempt_stat
    \/ s3_attempt_head
    \/ s3_attempt_get
    \/ single_return

NextFetch == FetchRun \/ abandon

\* the task is polled while it can make a step and every await completes: a
\* request is answered or fails, a read returns, a sleep ends
SpecLive == InitFetch /\ [][NextFetch]_vars /\ WF_vars(FetchRun)

\* ---------------------------------------------------------- modify_toml
\* main at the TOML step, the download done: a document in the file and the
\* changes of the configuration
InitToml ==
    /\ DownloadInit
    /\ yaml = CHOOSE y \in Yamls : from_file(y).ok
    /\ RunnerIdle
    /\ toml_value \in TomlDocs
    /\ yaml_as_toml \in TomlDocs
    /\ toml_before = toml_value
    /\ merges = 0

\* TomlModifier::modify_toml: the file is read and parsed, the changes are
\* merged into the document, and the document is written back
modify_toml ==
    /\ merges < MaxMerges
    /\ toml_before' = toml_value
    /\ toml_value' = merge_toml_values(toml_value, yaml_as_toml)
    /\ merges' = merges + 1
    /\ UNCHANGED <<downloadv, runv, yaml_as_toml>>

NextToml == modify_toml

SpecToml == InitToml /\ [][NextToml]_vars

\* ------------------------------------------------------ run_binary_start
\* main at run_binary_start: the child is spawned, both reader threads are
\* started, the flag is false and the mutex is free
InitRunner ==
    /\ DownloadInit
    /\ yaml = CHOOSE y \in Yamls : from_file(y).ok
    /\ TomlIdle
    /\ post_start_cmd \in BOOLEAN
    /\ lines \in [Threads -> LineSeqs]
    /\ tpc = [t \in Threads |-> "next"]
    /\ post_start_executed = FALSE
    /\ mutex = "none"
    /\ executions = 0
    /\ matched = [t \in Threads |-> 0]

\* the reader gets the next line, prints it, and goes for the lock if a
\* command is configured and the line contains the pattern
read_line(t) ==
    /\ tpc[t] = "next"
    /\ lines[t] # <<>>
    /\ lines' = [lines EXCEPT ![t] = Tail(@)]
    /\ matched' = [matched EXCEPT ![t] = IF Head(lines[t]) THEN @ + 1 ELSE @]
    /\ tpc' = [tpc EXCEPT ![t] = IF post_start_cmd /\ Head(lines[t])
                                  THEN "lock" ELSE "next"]
    /\ UNCHANGED <<downloadv, tomlv, post_start_cmd, post_start_executed,
                   mutex, executions>>

\* the stream is closed: the for loop and the thread end
end_of_stream(t) ==
    /\ tpc[t] = "next"
    /\ lines[t] = <<>>
    /\ tpc' = [tpc EXCEPT ![t] = "done"]
    /\ UNCHANGED <<downloadv, tomlv, post_start_cmd, lines, post_start_executed,
                   mutex, executions, matched>>

\* executed_flag.lock().unwrap()
lock(t) ==
    /\ tpc[t] = "lock"
    /\ mutex = "none"
    /\ mutex' = t
    /\ tpc' = [tpc EXCEPT ![t] = "check"]
    /\ UNCHANGED <<downloadv, tomlv, post_start_cmd, lines, post_start_executed,
                   executions, matched>>

\* if !*executed, under the guard
check_flag(t) ==
    /\ tpc[t] = "check"
    /\ tpc' = [tpc EXCEPT ![t] = IF ShouldExecute(post_start_executed)
                                  THEN "set" ELSE "unlock"]
    /\ UNCHANGED <<downloadv, tomlv, post_start_cmd, lines, post_start_executed,
                   mutex, executions, matched>>

\* *executed = true
set_flag(t) ==
    /\ tpc[t] = "set"
    /\ post_start_executed' = TRUE
    /\ tpc' = [tpc EXCEPT ![t] = "execute"]
    /\ UNCHANGED <<downloadv, tomlv, post_start_cmd, lines, mutex, executions,
                   matched>>

\* execute_post_start_command(cmd); its Err is only logged
execute_post_start_command(t) ==
    /\ tpc[t] = "execute"
    /\ executions' = executions + 1
    /\ tpc' = [tpc EXCEPT ![t] = "unlock"]
    /\ UNCHANGED <<downloadv, tomlv, post_start_cmd, lines, post_start_executed,
                   mutex, matched>>

\* the guard goes out of scope at the end of the if
unlock(t) ==
    /\ tpc[t] = "unlock"
    /\ mutex' = "none"
    /\ tpc' = [tpc EXCEPT ![t] = "next"]
    /\ UNCHANGED <<downloadv, tomlv, post_start_cmd, lines, post_start_executed,
                   executions, matched>>

NextRunner ==
    \E t \in Threads :
        \/ read_line(t)
        \/ end_of_stream(t)
        \/ lock(t)
        \/ check_flag(t)
        \/ set_flag(t)
        \/ execute_post_start_command(t)
        \/ unlock(t)

SpecRunner == InitRunner /\ [][NextRunner]_vars

TypeOK ==
    /\ yaml \in Yamls
    /\ cfg \in Configs
    /\ pc \in {"idle", "config_error", "attempt", "probe", "request", "open", "read", "sleep",
               "returned", "multipart", "parts", "concat_open", "concat_copy"}
    /\ attempt \in 0..cfg.download_retry.max_retries
    /\ err.attempt \in -1..attempt
    /\ calls \in 0..MaxCalls
    /\ faults \in 0..MaxFaults
    /\ skip_path \in {NoSkip, get_snapshot_filename(cfg)}
    /\ \A f \in FileNames : fs[f].ex \in BOOLEAN /\ Len(fs[f].data) >= 0

\* ------------------------------------------------------------------- claims
SingleFile == Len(get_snapshot_urls(cfg)) = 1

Multipart == Len(get_snapshot_urls(cfg)) > 1

MaxRetriesOf == cfg.download_retry.max_retries

\* the file that holds the whole object of a URL
Complete(u) == [ex |-> TRUE, data |-> Remote(u)]

RECURSIVE ConcatRemote(_, _)
\* Remote(urls[1]) \o ... \o Remote(urls[n])
ConcatRemote(urls, n) ==
    IF n = 0 THEN <<>> ELSE ConcatRemote(urls, n - 1) \o Remote(urls[n])

\* the fetch in hand has just returned to its caller
FetchReturned(res) == pc = "returned" /\ fetchRes = res

\* C1 (as claimed): whenever a single-file fetch returns Ok(path), the file at
\* path holds exactly the bytes of the remote object.
C1_OkMeansComplete ==
    (SingleFile /\ FetchReturned("ok")) => fs[file_path] = Complete(url)

\* C2 (as claimed): a fetch that starts from a partial file holding the first
\* k bytes of the object, 0 < k < total, and succeeds, leaves exactly the
\* bytes of the remote object in the file.  Stated for the fetches whose
\* probe was answered with a success status and whose body stream was read
\* to its end.
C2_ResumeCorrect ==
    (/\ SingleFile
     /\ FetchReturned("ok")
     /\ lastProbe \in {StatusOk, StatusPartial}
     /\ reader = <<>>
     /\ fs0[file_path].ex
     /\ Len(fs0[file_path].data) \in 1..(Len(Remote(url)) - 1)
     /\ fs0[file_path].data = Prefix(Remote(url), Len(fs0[file_path].data)))
    => fs[file_path] = Complete(url)

\* C3 (as claimed): when the probe of attempt 0 of download_file is answered
\* 404, the fetch returns the error after that one attempt, without a sleep.
C3_NotFoundNoRetry ==
    (/\ variant = "http"
     /\ lastProbe = StatusNotFound
     /\ attempt = 0
     /\ pc \in {"sleep", "returned"})
    => (FetchReturned("err") /\ attemptLog = <<0>> /\ sleepLog = <<>>)

\* C4: a fetch numbers its attempts 0, 1, 2, ... and never starts more than
\* max_retries + 1 of them; it sleeps only when another attempt is left; and
\* when it returns an error it has made exactly the attempts 0..max_retries.
C4_RetryExhaustion ==
    /\ attemptLog = [i \in 1..Len(attemptLog) |-> i - 1]
    /\ Len(attemptLog) <= MaxRetriesOf + 1
    /\ pc = "sleep" => attempt < MaxRetriesOf
    /\ FetchReturned("err") => attemptLog = [i \in 1..(MaxRetriesOf + 1) |-> i - 1]

C4_Witness ==
    /\ FetchReturned("err")
    /\ MaxRetriesOf = 1
    /\ attemptLog = <<0, 1>>

\* C5 (as claimed): when the file already holds the whole object, a fetch that
\* returns Ok has read no byte of a body stream and has left the file as it was.
C5_Idempotent ==
    (/\ SingleFile
     /\ FetchReturned("ok")
     /\ fs0[file_path] = Complete(url))
    => (bytesRead = 0 /\ fs = fs0 /\ file_path = FileNameOf(url))

\* C6: a 416 answer to the stream request ends the attempt with Ok: the fetch
\* returns Ok with the path of the existing file at once, with no sleep, and
\* the downloads directory is as it was before the request.
C6_RangeNotSatisfiableIsOk ==
    [][(pc = "request" /\ lastStatus' = StatusRangeNotSatisfiable /\ pc' # "idle")
        => (/\ pc' = "returned"
            /\ fetchRes' = "ok"
            /\ file_path' = FileNameOf(url)
            /\ fs' = fs
            /\ sleepLog' = sleepLog
            /\ attemptLog' = attemptLog)]_vars

C6_Witness ==
    /\ FetchReturned("ok")
    /\ lastStatus = StatusRangeNotSatisfiable
    /\ file_size > 0
    /\ requests[Len(requests)] = file_size

PartFiles == {FileNameOf(get_snapshot_urls(cfg)[i]) : i \in 1..Len(get_snapshot_urls(cfg))}

\* download_multipart_snapshot has returned Ok
MultipartOk == Multipart /\ pc = "idle" /\ result.status = "ok"

AllPartsDone == \A i \in 1..Len(get_snapshot_urls(cfg)) : partState[i] = "done"

\* C7 (as claimed): after download_multipart_snapshot has fetched the parts,
\* concatenated them and returned Ok, the final file holds the bytes of the
\* remote parts in URL order and no part file is left.  Stated for the runs
\* in which at most one thing went wrong.
C7_Concatenation ==
    (MultipartOk /\ AllPartsDone /\ faults <= 1)
    => (/\ fs[cfg.snapshot_filename].data
             = ConcatRemote(get_snapshot_urls(cfg), Len(get_snapshot_urls(cfg)))
        /\ \A f \in PartFiles : ~fs[f].ex)

\* C8 (as claimed): whenever download_multipart_snapshot returns Ok(path), on
\* a first run or on a rerun, the file at path holds the bytes of all remote
\* parts in URL order.  Stated for the reruns that find every part file whole
\* on disk.
C8_OkMeansAssembled ==
    (/\ MultipartOk
     /\ \A i \in 1..Len(get_snapshot_urls(cfg)) :
           fs0[FileNameOf(get_snapshot_urls(cfg)[i])] = Complete(get_snapshot_urls(cfg)[i]))
    => fs[result.path] =
         [ex |-> TRUE,
          data |-> ConcatRemote(get_snapshot_urls(cfg), Len(get_snapshot_urls(cfg)))]

\* C9: an invocation of download_multipart_snapshot that finds the final file
\* in place starts no part, sends no probe and no stream request, writes and
\* deletes nothing, and returns Ok with the path of the final file.
C9_MultipartIdempotent ==
    (Multipart /\ calls > 0 /\ fs0[cfg.snapshot_filename].ex)
    => (/\ pc \in {"multipart", "idle"}
        /\ partState = NoParts
        /\ probes = 0
        /\ requests = <<>>
        /\ fs = fs0
        /\ removed = {}
        /\ pc = "idle" =>
             \/ result = [status |-> "ok", path |-> cfg.snapshot_filename]
             \/ result.status = "abandoned")

C9_Witness ==
    /\ MultipartOk
    /\ fs0[cfg.snapshot_filename].ex
    /\ calls = 2
    /\ \E f \in PartFiles : fs[f].ex

\* C10: part i+1 is started only after part i has completed with Ok, the
\* concatenation starts only after every part has, and the parts are fetched
\* and pushed in the order of the URLs.
C10_PartsInOrder ==
    Multipart =>
      /\ \A i \in 2..MaxParts : partState[i] # "none" => partState[i - 1] = "done"
      /\ pc \in {"concat_open", "concat_copy"} => AllPartsDone
      /\ removed # {} => AllPartsDone
      /\ \A i \in 1..Len(part_paths) :
            part_paths[i] = FileNameOf(get_snapshot_urls(cfg)[i])
      /\ \A i \in 1..MaxParts :
            partState[i] = "started" =>
               (pc \in {"attempt", "probe", "request", "open", "read", "sleep", "returned"}
                  => url = get_snapshot_urls(cfg)[i] /\ part_idx = i)

C10_Witness ==
    /\ Multipart
    /\ partState[MaxParts] = "started"
    /\ pc = "read"
    /\ attempt > 0

\* the positions of an invocation that lie inside download_file or
\* download_s3_file
FetchPcs == {"attempt", "probe", "request", "open", "read", "sleep", "returned"}

\* d is min(max_delay_secs, floor(initial_delay_secs * multiplier^n)), said
\* without division: either the clamp applies, or d <= the product < d + 1
IsClampedFloor(rc, n, d) ==
    LET p == rc.initial_delay_secs * Pow(rc.backoff_multiplier.num, n)
        q == Pow(rc.backoff_multiplier.den, n)
    IN  /\ d <= rc.max_delay_secs
        /\ \/ d = rc.max_delay_secs /\ p >= rc.max_delay_secs * q
           \/ d * q <= p /\ p < (d + 1) * q

\* C11: whenever a fetch is about to sleep, for every attempt number the
\* value of calculate_delay under the policy of the run is the floor of
\* initial_delay_secs * backoff_multiplier^attempt clamped to max_delay_secs;
\* with the default policy the delays of attempts 0, 3 and 9 are 1, 8 and 300
\* seconds; no delay slept exceeds max_delay_secs.
C11_DelayFormula ==
    /\ pc = "sleep" =>
          /\ \A n \in 0..DelayAttempts :
                IsClampedFloor(cfg.download_retry, n,
                               calculate_delay(cfg.download_retry, n))
          /\ calculate_delay(DefaultRetryConfig, 0) = 1
          /\ calculate_delay(DefaultRetryConfig, 3) = 8
          /\ calculate_delay(DefaultRetryConfig, 9) = 300
    /\ \A i \in 1..Len(sleepLog) : sleepLog[i] <= cfg.download_retry.max_delay_secs

C11_Witness ==
    /\ cfg.download_retry = CustomRetryConfig
    /\ sleepLog = <<3, 4, 5>>

\* C12: sleeps happen only between attempts: as many sleeps as attempts
\* started before the one in hand, the i-th of duration calculate_delay(i - 1);
\* none before attempt 0, none after the attempt that returns; a fetch that
\* returns an error has slept exactly max_retries times.
C12_SleepOnlyBetween ==
    pc \in FetchPcs =>
      /\ Len(sleepLog) = attempt
      /\ \A i \in 1..Len(sleepLog) :
            sleepLog[i] = calculate_delay(cfg.download_retry, i - 1)
      /\ Len(attemptLog) = IF pc = "attempt" THEN Len(sleepLog) ELSE Len(sleepLog) + 1
      /\ pc = "sleep" => attempt < MaxRetriesOf
      /\ FetchReturned("err") => Len(sleepLog) = MaxRetriesOf

C12_Witness ==
    /\ FetchReturned("ok")
    /\ attemptLog = <<0, 1>>
    /\ sleepLog = <<1>>
    /\ bytesRead > 0

\* C13 (as claimed): when config.yaml sets max_retries to 0, a fetch makes one
\* attempt and never sleeps.  Stated for the fetches of a well-formed URL.
C13_ZeroRetriesOneAttempt ==
    (/\ yaml.download_retry.max_retries = 0
     /\ pc \in FetchPcs
     /\ HttpScheme(url) \/ S3UrlOk(url))
    => (Len(attemptLog) <= 1 /\ sleepLog = <<>> /\ pc # "sleep")

\* C14 (as claimed): an attempt of download_s3_file on a URL that is not
\* s3://bucket/key ends the fetch: it returns the error after that one
\* attempt, without a sleep and without a request.
C14_MalformedS3FailsFast ==
    (variant = "s3" /\ ~S3UrlOk(url) /\ pc \in FetchPcs /\ attemptLog # <<>>)
    => (FetchReturned("err") /\ attemptLog = <<0>> /\ sleepLog = <<>> /\ probes = 0)

\* C15 (as claimed): Config::from_file returns an error exactly when several
\* snapshot URLs are configured and snapshot_filename is missing, and then
\* no download starts.
C15_FilenameRequiredForMultipart ==
    /\ (Len(get_snapshot_urls(yaml)) > 1 /\ yaml.snapshot_filename = NoFilename)
          => (pc = "config_error" /\ calls = 0 /\ probes = 0 /\ requests = <<>>)
    /\ pc = "config_error"
          => (Len(get_snapshot_urls(yaml)) > 1 /\ yaml.snapshot_filename = NoFilename)

\* C16 (as claimed): every fetch, of a single file or of a part, runs in the
\* object-storage variant when its URL starts with s3:// and in the HTTP
\* variant otherwise.
C16_VariantByScheme ==
    pc \in FetchPcs => variant = (IF is_s3_url(url) THEN "s3" ELSE "http")

\* C17 (as claimed): when head_object of attempt 0 of download_s3_file fails
\* because the object does not exist, the fetch returns the error after that
\* one attempt, without a sleep.
C17_S3NotFoundNoRetry ==
    (/\ variant = "s3"
     /\ lastProbe = StatusNotFound
     /\ attempt = 0
     /\ pc \in {"sleep", "returned"})
    => (FetchReturned("err") /\ attemptLog = <<0>> /\ sleepLog = <<>>)

\* C18: no step of a fetch (an attempt that fails, the return after the last
\* attempt, the abandonment of the task) deletes a file or removes or changes
\* a byte already in it: every file keeps its bytes as a prefix; and each
\* attempt takes the size of the file on disk as its starting size.
C18_PartialFileKept ==
    [][(pc \in FetchPcs) =>
         ((\A f \in FileNames :
              /\ fs[f].ex => fs'[f].ex
              /\ Len(fs'[f].data) >= Len(fs[f].data)
              /\ Prefix(fs'[f].data, Len(fs[f].data)) = fs[f].data)
          /\ (pc' \in {"probe", "request", "open"} =>
                 file_size' = ExistingSize(fs'[file_path'])))]_vars

C18_Witness ==
    /\ pc = "read"
    /\ attempt > 0
    /\ file_size > 0
    /\ file.append
    /\ ~fs0[file_path].ex
    /\ Len(fs[file_path].data) > file_size

\* C19 (as claimed): a non-success status other than 404 and 416 in the answer
\* to the probe or to the stream request of download_file_attempt fails the
\* attempt: the fetch sleeps or returns the error, and nothing is written.
C19_ErrorStatusFailsAttempt ==
    [][(variant = "http" /\ pc' # "idle"
        /\ ((pc = "probe" /\ lastProbe' = StatusServerError)
            \/ (pc = "request" /\ lastStatus' = StatusServerError)))
       => (pc' \in {"sleep", "returned"} /\ fetchRes' # "ok" /\ fs' = fs)]_vars

\* C20 (as claimed): when download_async_read_to_file has returned, with Ok or
\* with an error, the handle is closed and nothing written through it is left
\* unflushed.
C20_HandleReleased ==
    pc \in {"sleep", "returned"} => (~file.open /\ ~file.dirty)

\* C21: the cleanup after a concatenation that succeeded tries to delete every
\* part file: each part whose remove_file did not fail is gone afterwards,
\* also one that comes after a part whose removal failed, and
\* download_multipart_snapshot returns Ok with the final path whether or not
\* a removal failed.
C21_CleanupBestEffort ==
    [][(pc = "concat_copy" /\ cat_idx > Len(part_paths) /\ pc' = "idle"
        /\ result'.status # "abandoned")
       => (/\ result' = [status |-> "ok", path |-> cfg.snapshot_filename]
           /\ \A i \in 1..Len(part_paths) :
                 i \notin remove_failed' => ~fs'[part_paths[i]].ex
           /\ \A f \in FileNames \ {part_paths[i] : i \in 1..Len(part_paths)} :
                 fs'[f] = fs[f])]_vars

C21_Witness ==
    /\ MultipartOk
    /\ remove_failed = {1}
    /\ fs[part_paths[1]].ex
    /\ \A i \in 2..Len(part_paths) : part_paths[i] \in removed

\* the bodies the last stream request of this attempt can have been answered with
StreamBodies ==
    IF variant = "http"
    THEN {r.body : r \in {q \in StreamResponses(url, requests[Len(requests)]) :
                              q.status = lastStatus}}
    ELSE {r.body : r \in {q \in GetResponses(url, requests[Len(requests)]) : q.ok}}

\* C24: every attempt works from the size the local file has when the attempt
\* starts: the size it uses is the size on disk, one probe was sent for every
\* attempt, and the stream request of the attempt starts at that size
C24_AttemptRestarts ==
    [][(pc = "request" /\ requests' # requests)
       => (/\ file_size = ExistingSize(fs[file_path])
           /\ SingleFile => probes = Len(attemptLog)
           /\ requests'[Len(requests')] = RangeStart(ExistingSize(fs[file_path])))]_vars

\* C25: an attempt that finds the local size equal to a known total returns Ok
\* at the probe, with no stream request, the file not opened and not changed
C25_AlreadyCompleteShortCircuit ==
    [][(pc = "probe" /\ pc' # "idle" /\ total_size' > 0 /\ file_size = total_size')
       => (/\ pc' = "returned"
           /\ fetchRes' = "ok"
           /\ requests' = requests
           /\ fs' = fs
           /\ ~file'.open
           /\ file' = file
           /\ bytesRead' = bytesRead)]_vars

C25_Witness ==
    /\ variant = "s3"
    /\ pc = "returned"
    /\ fetchRes = "ok"
    /\ file_size = total_size
    /\ total_size > 0
    /\ requests = <<>>
    /\ fs[file_path] = Complete(url)

\* C26: the get of the object-store variant carries the range that starts at
\* the local size exactly when that size is above 0
C26_S3RangedWhenExisting ==
    [][(pc = "request" /\ variant = "s3" /\ requests' # requests)
       => (requests'[Len(requests')] = IF file_size > 0 THEN file_size ELSE NoRange)]_vars

\* C27: bytes are appended after existing bytes only from a stream that
\* starts at the remote offset existing_size
C27_AppendStartsAtExisting ==
    (pc = "read" /\ file_size > 0 /\ file.pos > 0)
    => (/\ requests[Len(requests)] = file_size
        /\ variant = "http" => lastStatus = StatusPartial
        /\ \A b \in StreamBodies : b = Suffix(Remote(url), Min(file_size, Len(Remote(url)))))

\* C28: while the stream is written, the counter and the progress position
\* are existing_size plus the bytes written in this attempt, which is the size
\* of the file; what is written and what is left is the stream
C28_ProgressIsPosition ==
    pc = "read"
    => (/\ downloaded = file_size + file.pos
        /\ pb = downloaded
        /\ Len(fs[file_path].data) = downloaded
        /\ \E b \in StreamBodies : Len(b) = file.pos + Len(reader))

C28_Witness ==
    /\ pc = "read"
    /\ file_size > 0
    /\ file.pos > 0
    /\ reader = <<>>
    /\ pb = Len(fs[file_path].data)

\* the total a probe answer declares: the number that ends a content-range
\* value after its '/' under 206, the content-length number under any other
\* status, 0 without such a number
DeclaredTotal(resp) ==
    LET h == IF resp.status = StatusPartial THEN resp.content_range
             ELSE resp.content_length
        n == IF resp.status = StatusPartial THEN 2 ELSE 1
    IN  IF h.present /\ Len(h.segs) = n /\ h.segs[n].num THEN h.segs[n].n ELSE 0

RECURSIVE IsMergeOf(_, _, _)
\* r is the merge of the tables t and s by the rule of the keys
IsMergeOf(t, s, r) ==
    /\ IsTable(r)
    /\ DOMAIN r.val = DOMAIN t.val \cup DOMAIN s.val
    /\ \A k \in DOMAIN r.val :
         IF k \notin DOMAIN s.val THEN r.val[k] = t.val[k]
         ELSE IF k \notin DOMAIN t.val THEN r.val[k] = s.val[k]
         ELSE IF IsTable(t.val[k]) /\ IsTable(s.val[k])
              THEN IsMergeOf(t.val[k], s.val[k], r.val[k])
              ELSE r.val[k] = s.val[k]

\* C22: the merge of two tables keeps the keys that only the target has, adds
\* the keys that only the source has, merges by the same rule a key that is a
\* table on both sides, and gives any other common key the source value
C22_MergeRule ==
    merges > 0 => IsMergeOf(toml_before, yaml_as_toml, toml_value)

C22_Witness ==
    /\ merges = 1
    /\ DOMAIN toml_before.val = {"a", "b"}
    /\ DOMAIN yaml_as_toml.val = {"a", "b"}
    /\ IsTable(toml_before.val["a"]) /\ IsTable(yaml_as_toml.val["a"])
    /\ DOMAIN toml_before.val["a"].val = {"a"}
    /\ DOMAIN yaml_as_toml.val["a"].val = {"b"}
    /\ IsTable(toml_before.val["b"]) /\ ~IsTable(yaml_as_toml.val["b"])
    /\ toml_value.val["b"] = yaml_as_toml.val["b"]
    /\ DOMAIN toml_value.val["a"].val = {"a", "b"}

\* C23: execute_post_start_command is called at most once, and only with a
\* command configured and after a line with the pattern was read
C23_PostStartAtMostOnce ==
    /\ executions <= 1
    /\ executions >= 1 => (post_start_cmd /\ \E t \in Threads : matched[t] > 0)
    /\ \A t \in Threads : tpc[t] \in {"check", "set", "execute", "unlock"} <=> mutex = t

C23_Witness ==
    /\ executions = 1
    /\ \A t \in Threads : tpc[t] = "done" /\ matched[t] = MaxLines
\* C31: the error a fetch returns after its retries is the error of attempt
\* max_retries, and it carries the number of attempts made
C31_LastErrorWithCount ==
    (FetchReturned("err") /\ HttpScheme(url))
    => (/\ err.attempt = MaxRetriesOf
        /\ err.attempts = MaxRetriesOf + 1)
\* C32: a fetch that is not abandoned returns; it makes at most
\* max_retries + 1 attempts, an Err is returned by attempt max_retries only,
\* an Ok is returned by the attempt in hand with one sleep before each earlier
\* retry and none after it, and no step of the fetch follows the return
C32_FetchTerminates ==
    /\ [](pc \in FetchPcs
          => (/\ attempt <= MaxRetriesOf
              /\ Len(attemptLog) <= MaxRetriesOf + 1
              /\ pc = "returned" =>
                    (/\ fetchRes \in {"ok", "err"}
                     /\ fetchRes = "err" => attempt = MaxRetriesOf
                     /\ Len(attemptLog) = attempt + 1
                     /\ Len(sleepLog) = attempt)))
    /\ [][(pc = "returned") => (pc' \notin FetchPcs \ {"returned"})]_vars
    /\ (pc \in FetchPcs) ~> (pc \in {"returned", "idle"})

C32_Witness ==
    /\ FetchReturned("ok")
    /\ attempt = MaxRetriesOf
    /\ attempt > 0
    /\ Len(sleepLog) = attempt
\* download_multipart_snapshot returned the error of a part
PartFailed ==
    /\ Multipart
    /\ pc = "idle"
    /\ result.status = "err"
    /\ part_idx >= 1
    /\ part_idx <= Len(get_snapshot_urls(cfg))
    /\ partState[part_idx] = "started"

\* download_multipart_snapshot returned the error of concatenate_files
ConcatFailed ==
    /\ Multipart
    /\ pc = "idle"
    /\ result.status = "err"
    /\ part_idx > Len(get_snapshot_urls(cfg))

\* C33: when a part fails for good the transfer returns the error, no later
\* part was started, the final file is as it was before the call (absent),
\* and no part file was deleted; when the concatenation fails no part file
\* was deleted
C33_PartFailureStops ==
    /\ PartFailed
       => (/\ fetchRes = "err"
           /\ \A j \in (part_idx + 1)..Len(get_snapshot_urls(cfg)) : partState[j] = "none"
           /\ fs[cfg.snapshot_filename] = fs0[cfg.snapshot_filename]
           /\ ~fs[cfg.snapshot_filename].ex
           /\ removed = {}
           /\ \A j \in 1..Len(part_paths) : fs[part_paths[j]].ex)
    /\ ConcatFailed
       => (/\ removed = {}
           /\ \A j \in 1..Len(part_paths) : fs[part_paths[j]].ex)

\* C34: the part files handed to concatenate_files are as many as the URLs,
\* pairwise distinct, and none of them is the final file
C34_PartPathsDistinct ==
    pc \in {"concat_open", "concat_copy"}
    => (/\ Len(part_paths) = Len(get_snapshot_urls(cfg))
        /\ \A i, j \in 1..Len(part_paths) : i # j => part_paths[i] # part_paths[j]
        /\ \A i \in 1..Len(part_paths) : part_paths[i] # cfg.snapshot_filename)

\* C35 (as claimed): the path main uses when the download is skipped, the
\* downloads directory joined with get_snapshot_filename(), is the path a
\* successful download_snapshot returns for the same configuration: for one
\* HTTP URL, for one s3:// URL and for a multipart snapshot.
C35_SkipPathIsDownloadPath ==
    /\ (pc = "idle" /\ result.status = "ok")
       => (/\ get_snapshot_filename(cfg).ok
           /\ result.path = get_snapshot_filename(cfg).name)
    /\ (skip_path.ok /\ pc = "idle" /\ result.status = "ok")
       => result.path = skip_path.name

\* the only URL is the one element of snapshot_urls, an s3:// URL, beside a
\* snapshot_filename of another name, and its download has succeeded
C35_Witness ==
    /\ yaml = OneOfListYaml
    /\ skip_path = [ok |-> TRUE, name |-> "x"]
    /\ pc = "idle"
    /\ result = [status |-> "ok", path |-> "x"]
    /\ fs["x"] = Complete(UrlS)

\* the list the configuration stands for: snapshot_urls when it is not empty,
\* else the one snapshot_url when it is not empty, else nothing
ConfiguredUrls ==
    IF Len(cfg.snapshot_urls) > 0 THEN cfg.snapshot_urls
    ELSE IF Len(cfg.snapshot_url) > 0 THEN <<cfg.snapshot_url>>
    ELSE <<>>

MultipartPcs == {"multipart", "parts", "concat_open", "concat_copy"}

\* C36 (as claimed): get_snapshot_urls returns snapshot_urls when it is not
\* empty, whatever snapshot_url is, else the one-element list of snapshot_url
\* when that is not empty, else the empty list; download_snapshot takes the
\* single-file path exactly when the list has one element, and with an empty
\* list it fails with an error and downloads nothing.
C36_UrlListAndDispatch ==
    /\ get_snapshot_urls(cfg) = ConfiguredUrls
    /\ (pc \in FetchPcs /\ part_idx = 0)
       => (Len(ConfiguredUrls) = 1 /\ url = ConfiguredUrls[1])
    /\ (pc \in MultipartPcs \/ part_idx > 0) => Len(ConfiguredUrls) > 1
    /\ (Len(ConfiguredUrls) = 1 /\ calls > 0 /\ pc # "idle")
       => (pc \in FetchPcs /\ part_idx = 0)
    /\ (Len(ConfiguredUrls) > 1 /\ calls > 0 /\ pc \in FetchPcs) => part_idx > 0
    /\ (Len(ConfiguredUrls) = 0 /\ calls > 0)
       => (/\ pc = "idle"
           /\ result = [status |-> "err", path |-> ""]
           /\ fs = fs0
           /\ attemptLog = <<>>
           /\ probes = 0)

\* snapshot_urls of one element beside another snapshot_url: the element is
\* fetched as a single file, in the variant of its scheme
C36_Witness ==
    /\ yaml = OneOfListYaml
    /\ pc = "read"
    /\ part_idx = 0
    /\ url = UrlS
    /\ variant = "s3"

\* no URL is configured and download_snapshot has returned its error
C36_WitnessEmpty ==
    /\ yaml = EmptyYaml
    /\ calls > 0
    /\ pc = "idle"
    /\ result.status = "err"

RECURSIVE HasLeavesOf(_, _)
\* every leaf of s is in r under the same keys, with the same value
HasLeavesOf(s, r) ==
    IF IsTable(s)
    THEN /\ IsTable(r)
         /\ \A k \in DOMAIN s.val : k \in DOMAIN r.val /\ HasLeavesOf(s.val[k], r.val[k])
    ELSE r = s

\* C37 (as claimed): merge_toml_values is idempotent, merging the same source
\* a second time changes nothing, and after a merge every leaf of the source
\* is in the target at the same key path. The last conjunct merges the values
\* under the keys, scalars as well as tables, as targets and sources.
C37_MergeIdempotent ==
    /\ merges >= 1 => HasLeavesOf(yaml_as_toml, toml_value)
    /\ merges >= 2 => toml_value = toml_before
    /\ merges >= 1 => merge_toml_values(toml_value, yaml_as_toml) = toml_value
    /\ \A k \in DOMAIN toml_value.val, j \in DOMAIN yaml_as_toml.val :
         LET target == toml_value.val[k]
             source == yaml_as_toml.val[j]
             once == merge_toml_values(target, source)
         IN  /\ merge_toml_values(once, source) = once
             /\ HasLeavesOf(source, once)

\* the same changes were merged twice into a document that had a table of
\* its own under "a" and a table under "b" that the source replaces by a scalar
C37_Witness ==
    /\ merges = 2
    /\ DOMAIN yaml_as_toml.val = {"a", "b"}
    /\ IsTable(yaml_as_toml.val["a"])
    /\ DOMAIN yaml_as_toml.val["a"].val = {"b"}
    /\ ~IsTable(yaml_as_toml.val["b"])
    /\ DOMAIN toml_value.val["a"].val = {"a", "b"}
    /\ toml_value.val["a"].val["a"] # toml_value.val["a"].val["b"]
    /\ toml_value = toml_before

====
